---- MODULE Spec2Model ----
(***************************************************************************)
(* Model of the Tsukamoto fuzzy inference engine of the credit-risk        *)
(* backend (src/services/fuzzy_logic/engine.py).                           *)
(*                                                                         *)
(* Numbers are exact rationals [num, den] with den > 0, kept in lowest     *)
(* terms; Python's int/float arithmetic is modelled by exact arithmetic.   *)
(* A raised exception is a value of its own (ZeroDivisionError, KeyError). *)
(***************************************************************************)
EXTENDS Integers, Sequences, FiniteSets, TLC

VARIABLES
    probe,      \* a membership function, an argument and what evaluate returned
    fis,        \* the engine object: variables, rules, output_variables
    assembled,  \* the engine has been handed over for evaluation
    frames,     \* the activation record of each TsukamotoFIS.evaluate call
    credit,     \* the activation record of evaluate_credit_risk
    history,    \* the number of finished evaluate_credit_risk calls and the first one
    viz,        \* the activation record of a visualization helper and what it returned
    app         \* the create_application handler: request, database rows, response

vars == <<probe, fis, assembled, frames, credit, history, viz, app>>

(***************************************************************************)
(* Exact rational arithmetic                                               *)
(***************************************************************************)
Abs(n) == IF n < 0 THEN -n ELSE n

RECURSIVE Gcd(_, _)
Gcd(m, n) == IF n = 0 THEN m ELSE Gcd(n, m % n)

\* the rational p/q in lowest terms, q # 0
Frac(p, q) ==
    LET g == Gcd(Abs(p), Abs(q))
        s == IF q < 0 THEN -1 ELSE 1
    IN  [num |-> (s * p) \div g, den |-> (s * q) \div g]

R(n) == [num |-> n, den |-> 1]

\* the value carried by a raised ZeroDivisionError
ZeroDivisionError == [num |-> 0, den |-> 0]

IsNumber(v) == v.den > 0

Add(p, q) ==
    IF ~IsNumber(p) \/ ~IsNumber(q) THEN ZeroDivisionError
    ELSE Frac(p.num * q.den + q.num * p.den, p.den * q.den)

Sub(p, q) ==
    IF ~IsNumber(p) \/ ~IsNumber(q) THEN ZeroDivisionError
    ELSE Frac(p.num * q.den - q.num * p.den, p.den * q.den)

Mul(p, q) ==
    IF ~IsNumber(p) \/ ~IsNumber(q) THEN ZeroDivisionError
    ELSE Frac(p.num * q.num, p.den * q.den)

\* Python's true division: a zero divisor raises
Div(p, q) ==
    IF ~IsNumber(p) \/ ~IsNumber(q) \/ q.num = 0 THEN ZeroDivisionError
    ELSE Frac(p.num * q.den, p.den * q.num)

Lt(p, q) == p.num * q.den < q.num * p.den
Le(p, q) == p.num * q.den <= q.num * p.den
Gt(p, q) == Lt(q, p)
Ge(p, q) == Le(q, p)
Eq(p, q) == p.num * q.den = q.num * p.den

Min2(p, q) == IF Le(p, q) THEN p ELSE q
Max2(p, q) == IF Ge(p, q) THEN p ELSE q
\* Python's min(a, b, c) and max(a, b, c)
Min3(p, q, r) == Min2(Min2(p, q), r)
Max3(p, q, r) == Max2(Max2(p, q), r)

(***************************************************************************)
(* Membership functions                                                    *)
(***************************************************************************)
\* a triangular function has no d; the field repeats c so that all membership
\* functions are records of one shape (no triangular operation reads it)
TriangularMF(name, a, b, c) ==
    [kind |-> "TriangularMF", name |-> name, a |-> R(a), b |-> R(b), c |-> R(c),
     d |-> R(c)]

TrapezoidalMF(name, a, b, c, d) ==
    [kind |-> "TrapezoidalMF", name |-> name, a |-> R(a), b |-> R(b), c |-> R(c),
     d |-> R(d)]

\* the support test with strict comparisons
TriangularMF_evaluate_strict(self, x) ==
    IF Lt(x, self.a) \/ Gt(x, self.c) THEN R(0)
    ELSE IF Eq(x, self.b) THEN R(1)
    ELSE IF Lt(x, self.b) THEN Div(Sub(x, self.a), Sub(self.b, self.a))
    ELSE Div(Sub(self.c, x), Sub(self.c, self.b))

TriangularMF_evaluate(self, x) ==
    IF Le(x, self.a) \/ Ge(x, self.c) THEN R(0)
    ELSE IF Eq(x, self.b) THEN R(1)
    ELSE IF Lt(x, self.b) THEN Div(Sub(x, self.a), Sub(self.b, self.a))
    ELSE Div(Sub(self.c, x), Sub(self.c, self.b))

\* the falling edge measured from a instead of b
TriangularMF_inverse_wide_edge(self, y) ==
    IF Eq(y, R(0)) THEN self.b
    ELSE IF Le(y, R(1)) THEN
        LET x_left == Add(self.a, Mul(y, Sub(self.b, self.a)))
            x_right == Sub(self.c, Mul(y, Sub(self.c, self.a)))
        IN  Div(Add(x_left, x_right), R(2))
    ELSE self.b

TriangularMF_inverse(self, y) ==
    IF Eq(y, R(0)) THEN self.b
    ELSE IF Le(y, R(1)) THEN
        LET x_left == Add(self.a, Mul(y, Sub(self.b, self.a)))
            x_right == Sub(self.c, Mul(y, Sub(self.c, self.b)))
        IN  Div(Add(x_left, x_right), R(2))
    ELSE self.b

\* the plateau test with strict comparisons
TrapezoidalMF_evaluate_open_plateau(self, x) ==
    IF Le(x, self.a) \/ Ge(x, self.d) THEN R(0)
    ELSE IF Lt(self.b, x) /\ Lt(x, self.c) THEN R(1)
    ELSE IF Lt(x, self.b) THEN Div(Sub(x, self.a), Sub(self.b, self.a))
    ELSE Div(Sub(self.d, x), Sub(self.d, self.c))

TrapezoidalMF_evaluate(self, x) ==
    IF Le(x, self.a) \/ Ge(x, self.d) THEN R(0)
    ELSE IF Le(self.b, x) /\ Le(x, self.c) THEN R(1)
    ELSE IF Lt(x, self.b) THEN Div(Sub(x, self.a), Sub(self.b, self.a))
    ELSE Div(Sub(self.d, x), Sub(self.d, self.c))

\* the two edge estimates added, not averaged
TrapezoidalMF_inverse_sum(self, y) ==
    IF Eq(y, R(0)) THEN Div(Add(self.b, self.c), R(2))
    ELSE IF Eq(y, R(1)) THEN Div(Add(self.b, self.c), R(2))
    ELSE IF Lt(y, R(1)) THEN
        LET x_left == Add(self.a, Mul(y, Sub(self.b, self.a)))
            x_right == Sub(self.d, Mul(y, Sub(self.d, self.c)))
        IN  Add(x_left, x_right)
    ELSE Div(Add(self.b, self.c), R(2))

TrapezoidalMF_inverse(self, y) ==
    IF Eq(y, R(0)) THEN Div(Add(self.b, self.c), R(2))
    ELSE IF Eq(y, R(1)) THEN Div(Add(self.b, self.c), R(2))
    ELSE IF Lt(y, R(1)) THEN
        LET x_left == Add(self.a, Mul(y, Sub(self.b, self.a)))
            x_right == Sub(self.d, Mul(y, Sub(self.d, self.c)))
        IN  Div(Add(x_left, x_right), R(2))
    ELSE Div(Add(self.b, self.c), R(2))

\* mf.evaluate(x) and mf.inverse(y): dispatch on the object's class
MF_evaluate(mf, x) ==
    IF mf.kind = "TriangularMF" THEN TriangularMF_evaluate(mf, x)
    ELSE TrapezoidalMF_evaluate(mf, x)

MF_inverse(mf, y) ==
    IF mf.kind = "TriangularMF" THEN TriangularMF_inverse(mf, y)
    ELSE TrapezoidalMF_inverse(mf, y)

(***************************************************************************)
(* Fuzzy variables, rules and the engine object                            *)
(***************************************************************************)
FuzzyVariable(name, range_min, range_max) ==
    [name |-> name, range |-> <<R(range_min), R(range_max)>>,
     membership_functions |-> <<>>]

add_membership_function(self, mf) ==
    [self EXCEPT !.membership_functions = (mf.name :> mf) @@ @]

FuzzyRule(antecedent_func, consequent_var, consequent_term) ==
    [antecedent_func |-> antecedent_func, consequent_var |-> consequent_var,
     consequent_term |-> consequent_term]

TsukamotoFIS == [variables |-> <<>>, rules |-> <<>>, output_variables |-> {}]

TsukamotoFIS_add_variable(self, variable, is_output) ==
    [self EXCEPT !.variables = (variable.name :> variable) @@ @,
                 !.output_variables = IF is_output THEN @ \cup {variable.name} ELSE @]

TsukamotoFIS_add_rule(self, rule) ==
    [self EXCEPT !.rules = Append(@, rule)]

(***************************************************************************)
(* The fixed credit-risk knowledge base                                    *)
(***************************************************************************)
income_var ==
    add_membership_function(add_membership_function(add_membership_function(
        FuzzyVariable("income", 0, 20000000),
        TrapezoidalMF("low", 0, 0, 2500000, 3000000)),
        TriangularMF("medium", 2500000, 5000000, 7000000)),
        TrapezoidalMF("high", 6500000, 7000000, 20000000, 20000000))

dependents_var ==
    add_membership_function(add_membership_function(add_membership_function(
        FuzzyVariable("dependents", 0, 10),
        TrapezoidalMF("few", 0, 0, 1, 2)),
        TriangularMF("average", 1, 2, 3)),
        TrapezoidalMF("many", 3, 4, 10, 10))

credit_history_var ==
    add_membership_function(add_membership_function(add_membership_function(
        FuzzyVariable("credit_history", 0, 10),
        TrapezoidalMF("poor", 0, 0, 3, 4)),
        TriangularMF("average", 3, 5, 7)),
        TrapezoidalMF("good", 6, 7, 10, 10))

\* the low term's falling edge not mirrored by eligibility's eligible term
risk_var_unmirrored ==
    add_membership_function(add_membership_function(add_membership_function(
        FuzzyVariable("risk", 0, 100),
        TrapezoidalMF("low", 0, 0, 30, 45)),
        TriangularMF("medium", 30, 50, 70)),
        TrapezoidalMF("high", 60, 70, 100, 100))

risk_var ==
    add_membership_function(add_membership_function(add_membership_function(
        FuzzyVariable("risk", 0, 100),
        TrapezoidalMF("low", 0, 0, 30, 40)),
        TriangularMF("medium", 30, 50, 70)),
        TrapezoidalMF("high", 60, 70, 100, 100))

eligibility_var ==
    add_membership_function(add_membership_function(add_membership_function(
        FuzzyVariable("eligibility", 0, 100),
        TrapezoidalMF("not_eligible", 0, 0, 30, 40)),
        TriangularMF("under_consideration", 30, 50, 70)),
        TrapezoidalMF("eligible", 60, 70, 100, 100))

\* the antecedent closures; they read the variables they captured, not the engine
rule1_antecedent(inputs) ==
    LET income_high == MF_evaluate(income_var.membership_functions["high"], inputs.income)
        dependents_few == MF_evaluate(dependents_var.membership_functions["few"], inputs.dependents)
        credit_good == MF_evaluate(credit_history_var.membership_functions["good"], inputs.credit_history)
    IN  Min3(income_high, dependents_few, credit_good)

rule3_antecedent(inputs) ==
    LET income_medium == MF_evaluate(income_var.membership_functions["medium"], inputs.income)
        dependents_avg == MF_evaluate(dependents_var.membership_functions["average"], inputs.dependents)
        credit_avg == MF_evaluate(credit_history_var.membership_functions["average"], inputs.credit_history)
    IN  Min3(income_medium, dependents_avg, credit_avg)

rule5_antecedent(inputs) ==
    LET income_low == MF_evaluate(income_var.membership_functions["low"], inputs.income)
        dependents_many == MF_evaluate(dependents_var.membership_functions["many"], inputs.dependents)
        credit_poor == MF_evaluate(credit_history_var.membership_functions["poor"], inputs.credit_history)
    IN  Max3(income_low, dependents_many, credit_poor)

\* rule.evaluate(inputs): calls the rule's antecedent closure
FuzzyRule_evaluate(self, inputs) ==
    CASE self.antecedent_func = "rule1_antecedent" -> rule1_antecedent(inputs)
      [] self.antecedent_func = "rule3_antecedent" -> rule3_antecedent(inputs)
      [] self.antecedent_func = "rule5_antecedent" -> rule5_antecedent(inputs)

\* the first rule added before its output variable
create_credit_risk_fis_calls_rule_first ==
    << [op |-> "add_variable", variable |-> income_var, is_output |-> FALSE],
       [op |-> "add_variable", variable |-> dependents_var, is_output |-> FALSE],
       [op |-> "add_variable", variable |-> credit_history_var, is_output |-> FALSE],
       [op |-> "add_variable", variable |-> risk_var, is_output |-> TRUE],
       [op |-> "add_rule", rule |-> FuzzyRule("rule1_antecedent", "eligibility", "eligible")],
       [op |-> "add_variable", variable |-> eligibility_var, is_output |-> TRUE],
       [op |-> "add_rule", rule |-> FuzzyRule("rule1_antecedent", "risk", "low")],
       [op |-> "add_rule", rule |-> FuzzyRule("rule3_antecedent", "eligibility", "under_consideration")],
       [op |-> "add_rule", rule |-> FuzzyRule("rule3_antecedent", "risk", "medium")],
       [op |-> "add_rule", rule |-> FuzzyRule("rule5_antecedent", "eligibility", "not_eligible")],
       [op |-> "add_rule", rule |-> FuzzyRule("rule5_antecedent", "risk", "high")] >>

\* the calls create_credit_risk_fis makes on the fresh engine, in source order
create_credit_risk_fis_calls ==
    << [op |-> "add_variable", variable |-> income_var, is_output |-> FALSE],
       [op |-> "add_variable", variable |-> dependents_var, is_output |-> FALSE],
       [op |-> "add_variable", variable |-> credit_history_var, is_output |-> FALSE],
       [op |-> "add_variable", variable |-> risk_var, is_output |-> TRUE],
       [op |-> "add_variable", variable |-> eligibility_var, is_output |-> TRUE],
       [op |-> "add_rule", rule |-> FuzzyRule("rule1_antecedent", "eligibility", "eligible")],
       [op |-> "add_rule", rule |-> FuzzyRule("rule1_antecedent", "risk", "low")],
       [op |-> "add_rule", rule |-> FuzzyRule("rule3_antecedent", "eligibility", "under_consideration")],
       [op |-> "add_rule", rule |-> FuzzyRule("rule3_antecedent", "risk", "medium")],
       [op |-> "add_rule", rule |-> FuzzyRule("rule5_antecedent", "eligibility", "not_eligible")],
       [op |-> "add_rule", rule |-> FuzzyRule("rule5_antecedent", "risk", "high")] >>

\* one call of the builder applied to the engine under construction
BuilderCall(self, call) ==
    IF call.op = "add_variable"
    THEN TsukamotoFIS_add_variable(self, call.variable, call.is_output)
    ELSE TsukamotoFIS_add_rule(self, call.rule)

RECURSIVE BuilderRun(_, _, _)
BuilderRun(self, calls, n) ==
    IF n = 0 THEN self ELSE BuilderCall(BuilderRun(self, calls, n - 1), calls[n])

\* the engine create_credit_risk_fis returns
create_credit_risk_fis ==
    BuilderRun(TsukamotoFIS, create_credit_risk_fis_calls, Len(create_credit_risk_fis_calls))

get_risk_level(risk_score) ==
    IF Lt(risk_score, R(40)) THEN "Low"
    ELSE IF Lt(risk_score, R(70)) THEN "Medium"
    ELSE "High"

get_eligibility_status(eligibility_score) ==
    IF Lt(eligibility_score, R(40)) THEN "Not Eligible"
    ELSE IF Lt(eligibility_score, R(70)) THEN "Under Consideration"
    ELSE "Eligible"

(***************************************************************************)
(* TsukamotoFIS.evaluate, one loop iteration per step.  Every step maps    *)
(* the engine and the call's activation record to the engine and the       *)
(* record after the step.                                                  *)
(***************************************************************************)
Inputs(income, dependents, credit_history) ==
    [income |-> income, dependents |-> dependents, credit_history |-> credit_history]

NoInputs == Inputs(R(0), R(0), R(0))

IdleFrame ==
    [pc |-> "idle", inputs |-> NoInputs, rule_results |-> <<>>, pending |-> {},
     output_var |-> "", weighted_sum |-> R(0), weight_sum |-> R(0), j |-> 0,
     result |-> <<>>, exc |-> ""]

Raise(self, frame, exc) ==
    [self |-> self, frame |-> [frame EXCEPT !.pc = "raised", !.exc = exc]]

\* lines 114-115: fresh result and rule_results
evaluate_enter(self, inputs) ==
    [self |-> self,
     frame |-> [IdleFrame EXCEPT !.pc = IF Len(self.rules) = 0 THEN "outputs" ELSE "rules",
                                 !.inputs = inputs]]

\* the loop consumes self.rules while it iterates
evaluate_rule_consuming(self, frame) ==
    LET rule == Head(self.rules)
        firing_strength == FuzzyRule_evaluate(rule, frame.inputs)
    IN  [self |-> [self EXCEPT !.rules = Tail(@)],
         frame |-> [frame EXCEPT
             !.rule_results = Append(@, [rule |-> rule, firing_strength |-> firing_strength]),
             !.pc = IF Len(self.rules) = 1 THEN "outputs" ELSE "rules"]]

\* lines 118-120: one iteration of the loop over self.rules
evaluate_rule(self, frame) ==
    LET i == Len(frame.rule_results) + 1
        rule == self.rules[i]
        firing_strength == FuzzyRule_evaluate(rule, frame.inputs)
    IN  IF ~IsNumber(firing_strength) THEN Raise(self, frame, "ZeroDivisionError")
        ELSE [self |-> self,
              frame |-> [frame EXCEPT
                  !.rule_results = Append(@, [rule |-> rule, firing_strength |-> firing_strength]),
                  !.pc = IF i = Len(self.rules) THEN "outputs" ELSE "rules"]]

\* line 123, first visit: the loop starts iterating over self.output_variables
evaluate_outputs(self, frame) ==
    [self |-> self, frame |-> [frame EXCEPT !.pending = self.output_variables, !.pc = "next"]]

\* the sums are not reset between output variables
evaluate_output_var_no_reset(self, frame, output_var) ==
    [self |-> self,
     frame |-> [frame EXCEPT !.pending = @ \ {output_var},
                             !.output_var = output_var,
                             !.j = 1,
                             !.pc = IF Len(frame.rule_results) = 0 THEN "assign" ELSE "inner"]]

\* lines 123-125: the iteration hands out output_var, the sums start at 0
evaluate_output_var(self, frame, output_var) ==
    [self |-> self,
     frame |-> [frame EXCEPT !.pending = @ \ {output_var},
                             !.output_var = output_var,
                             !.weighted_sum = R(0),
                             !.weight_sum = R(0),
                             !.j = 1,
                             !.pc = IF Len(frame.rule_results) = 0 THEN "assign" ELSE "inner"]]

\* every fired rule counts for every output variable
evaluate_inner_any_variable(self, frame) ==
    LET rule == frame.rule_results[frame.j].rule
        firing_strength == frame.rule_results[frame.j].firing_strength
        after == [frame EXCEPT !.j = @ + 1,
                               !.pc = IF frame.j = Len(frame.rule_results) THEN "assign" ELSE "inner"]
    IN  IF Gt(firing_strength, R(0))
        THEN IF frame.output_var \notin DOMAIN self.variables
                \/ rule.consequent_term
                     \notin DOMAIN self.variables[frame.output_var].membership_functions
             THEN Raise(self, frame, "KeyError")
             ELSE LET mf == self.variables[frame.output_var].membership_functions[rule.consequent_term]
                      crisp_value == MF_inverse(mf, firing_strength)
                  IN  [self |-> self,
                       frame |-> [after EXCEPT
                           !.weighted_sum = Add(@, Mul(crisp_value, firing_strength)),
                           !.weight_sum = Add(@, firing_strength)]]
        ELSE [self |-> self, frame |-> after]

\* the sums are assigned, not accumulated
evaluate_inner_last_rule(self, frame) ==
    LET rule == frame.rule_results[frame.j].rule
        firing_strength == frame.rule_results[frame.j].firing_strength
        after == [frame EXCEPT !.j = @ + 1,
                               !.pc = IF frame.j = Len(frame.rule_results) THEN "assign" ELSE "inner"]
    IN  IF rule.consequent_var = frame.output_var /\ Gt(firing_strength, R(0))
        THEN IF frame.output_var \notin DOMAIN self.variables
                \/ rule.consequent_term
                     \notin DOMAIN self.variables[frame.output_var].membership_functions
             THEN Raise(self, frame, "KeyError")
             ELSE LET mf == self.variables[frame.output_var].membership_functions[rule.consequent_term]
                      crisp_value == MF_inverse(mf, firing_strength)
                  IN  [self |-> self,
                       frame |-> [after EXCEPT
                           !.weighted_sum = Mul(crisp_value, firing_strength),
                           !.weight_sum = firing_strength]]
        ELSE [self |-> self, frame |-> after]

\* lines 127-134: one iteration of the loop over rule_results
evaluate_inner(self, frame) ==
    LET rule == frame.rule_results[frame.j].rule
        firing_strength == frame.rule_results[frame.j].firing_strength
        after == [frame EXCEPT !.j = @ + 1,
                               !.pc = IF frame.j = Len(frame.rule_results) THEN "assign" ELSE "inner"]
    IN  IF rule.consequent_var = frame.output_var /\ Gt(firing_strength, R(0))
        THEN IF frame.output_var \notin DOMAIN self.variables
                \/ rule.consequent_term
                     \notin DOMAIN self.variables[frame.output_var].membership_functions
             THEN Raise(self, frame, "KeyError")
             ELSE LET mf == self.variables[frame.output_var].membership_functions[rule.consequent_term]
                      crisp_value == MF_inverse(mf, firing_strength)
                  IN  [self |-> self,
                       frame |-> [after EXCEPT
                           !.weighted_sum = Add(@, Mul(crisp_value, firing_strength)),
                           !.weight_sum = Add(@, firing_strength)]]
        ELSE [self |-> self, frame |-> after]

\* no fallback when no rule fired
evaluate_assign_no_fallback(self, frame) ==
    IF Gt(frame.weight_sum, R(0))
    THEN [self |-> self,
          frame |-> [frame EXCEPT
              !.result = (frame.output_var :> Div(frame.weighted_sum, frame.weight_sum)) @@ @,
              !.pc = "next"]]
    ELSE [self |-> self, frame |-> [frame EXCEPT !.pc = "next"]]

\* the quotient the wrong way round
evaluate_assign_inverted(self, frame) ==
    IF Gt(frame.weight_sum, R(0))
    THEN [self |-> self,
          frame |-> [frame EXCEPT
              !.result = (frame.output_var :> Div(frame.weight_sum, frame.weighted_sum)) @@ @,
              !.pc = "next"]]
    ELSE LET var_range == self.variables[frame.output_var].range
         IN  [self |-> self,
              frame |-> [frame EXCEPT
                  !.result = (frame.output_var :> Div(Add(var_range[1], var_range[2]), R(2))) @@ @,
                  !.pc = "next"]]

\* lines 136-141: the weighted average, or the middle of the range
evaluate_assign(self, frame) ==
    IF Gt(frame.weight_sum, R(0))
    THEN [self |-> self,
          frame |-> [frame EXCEPT
              !.result = (frame.output_var :> Div(frame.weighted_sum, frame.weight_sum)) @@ @,
              !.pc = "next"]]
    ELSE IF frame.output_var \notin DOMAIN self.variables
    THEN Raise(self, frame, "KeyError")
    ELSE LET var_range == self.variables[frame.output_var].range
         IN  [self |-> self,
              frame |-> [frame EXCEPT
                  !.result = (frame.output_var :> Div(Add(var_range[1], var_range[2]), R(2))) @@ @,
                  !.pc = "next"]]

\* line 143
evaluate_return(self, frame) ==
    [self |-> self, frame |-> [frame EXCEPT !.pc = "done"]]

(***************************************************************************)
(* visualization.py: the data behind the membership-function and the       *)
(* rule-evaluation charts, one loop iteration per step.  Each step maps    *)
(* the helper's activation record to the record after the step.            *)
(***************************************************************************)
\* np.linspace(start, stop) with num - 1 equal steps and the end point
\* dropped: the last sample falls one step short of stop
linspace_no_endpoint(start, stop, num) ==
    IF num < 0
    THEN [exc |-> "ValueError: Number of samples must be non-negative", y |-> <<>>]
    ELSE [exc |-> "",
          y |-> [i \in 1 .. num |-> Add(start, Mul(R(i - 1), Div(Sub(stop, start), R(num))))]]

\* np.linspace(start, stop, num): num evenly spaced samples, the first start and,
\* from two samples on, the last stop; a single sample is start; a negative
\* num is a ValueError
linspace(start, stop, num) ==
    IF num < 0
    THEN [exc |-> "ValueError: Number of samples must be non-negative", y |-> <<>>]
    ELSE [exc |-> "",
          y |-> [i \in 1 .. num |->
                    IF num = 1 THEN start
                    ELSE IF i = num THEN stop
                    ELSE Add(start, Mul(R(i - 1), Div(Sub(stop, start), R(num - 1))))]]

\* lines 7-16: the fresh engine, the lookup of the variable, the samples
generate_membership_function_data_enter(call, variable_name, num_points) ==
    LET fis_ == create_credit_risk_fis
        entered == [call EXCEPT !.func = "generate_membership_function_data",
                                !.variable_name = variable_name,
                                !.num_points = num_points]
    IN  IF variable_name \notin DOMAIN fis_.variables
        THEN [entered EXCEPT !.pc = "raised", !.exc = "ValueError: Variable not found in FIS"]
        ELSE LET var_range == fis_.variables[variable_name].range
                 x == linspace(var_range[1], var_range[2], num_points)
             IN  IF x.exc # ""
                 THEN [entered EXCEPT !.pc = "raised", !.exc = x.exc]
                 ELSE [entered EXCEPT !.x = x.y,
                                      !.pc = IF Len(x.y) = 0 THEN "returned" ELSE "loop"]

\* lines 18-24: one iteration of the loop over x; the terms are written into
\* the point after "x"
generate_membership_function_data_point(call) ==
    LET variable == create_credit_risk_fis.variables[call.variable_name]
        i == Len(call.data) + 1
        x_val == call.x[i]
        point == [mf_name \in DOMAIN variable.membership_functions |->
                     MF_evaluate(variable.membership_functions[mf_name], x_val)]
                 @@ ("x" :> x_val)
    IN  [call EXCEPT !.data = Append(@, point),
                     !.pc = IF i = Len(call.x) THEN "returned" ELSE "loop"]

\* lines 99-113
get_rule_description(rule_index) ==
    LET descriptions ==
            << "IF income is high AND dependents are few AND credit history is good THEN eligibility is eligible",
               "IF income is high AND dependents are few AND credit history is good THEN risk is low",
               "IF income is medium AND dependents are average AND credit history is average THEN eligibility is under consideration",
               "IF income is medium AND dependents are average AND credit history is average THEN risk is medium",
               "IF income is low OR dependents are many OR credit history is poor THEN eligibility is not eligible",
               "IF income is low OR dependents are many OR credit history is poor THEN risk is high" >>
    IN  IF rule_index < 0 \/ rule_index >= Len(descriptions) THEN "Unknown rule"
        ELSE descriptions[rule_index + 1]

\* lines 77-79: the fresh engine and the empty list
generate_rule_evaluation_data_enter(call, inputs) ==
    [call EXCEPT !.func = "generate_rule_evaluation_data",
                 !.inputs = inputs,
                 !.pc = IF Len(create_credit_risk_fis.rules) = 0 THEN "returned" ELSE "loop"]

\* inverse is called at firing strength 0 as well
generate_rule_evaluation_data_rule_always_inverse(call) ==
    LET fis_ == create_credit_risk_fis
        i == Len(call.data)
        rule == fis_.rules[i + 1]
        firing_strength == FuzzyRule_evaluate(rule, call.inputs)
        mf == fis_.variables[rule.consequent_var].membership_functions[rule.consequent_term]
        crisp_value == IF Ge(firing_strength, R(0)) THEN MF_inverse(mf, firing_strength) ELSE R(0)
    IN  [call EXCEPT
            !.data = Append(@, [rule |-> i + 1,
                                antecedent |-> firing_strength,
                                consequent |-> firing_strength,
                                description |-> get_rule_description(i),
                                output_var |-> rule.consequent_var,
                                output_term |-> rule.consequent_term,
                                crisp_value |-> crisp_value]),
            !.pc = IF i + 1 = Len(fis_.rules) THEN "returned" ELSE "loop"]

\* lines 80-95: one iteration of the loop over fis.rules; "rule" holds the
\* number i+1 of the label "Rule {i+1}"
generate_rule_evaluation_data_rule(call) ==
    LET fis_ == create_credit_risk_fis
        i == Len(call.data)
        rule == fis_.rules[i + 1]
        firing_strength == FuzzyRule_evaluate(rule, call.inputs)
    IN  IF ~IsNumber(firing_strength)
        THEN [call EXCEPT !.pc = "raised", !.exc = "ZeroDivisionError"]
        ELSE IF rule.consequent_var \notin DOMAIN fis_.variables
                \/ rule.consequent_term
                     \notin DOMAIN fis_.variables[rule.consequent_var].membership_functions
        THEN [call EXCEPT !.pc = "raised", !.exc = "KeyError"]
        ELSE LET mf == fis_.variables[rule.consequent_var].membership_functions[rule.consequent_term]
                 crisp_value == IF Gt(firing_strength, R(0)) THEN MF_inverse(mf, firing_strength)
                                ELSE R(0)
             IN  [call EXCEPT
                     !.data = Append(@, [rule |-> i + 1,
                                         antecedent |-> firing_strength,
                                         consequent |-> firing_strength,
                                         description |-> get_rule_description(i),
                                         output_var |-> rule.consequent_var,
                                         output_term |-> rule.consequent_term,
                                         crisp_value |-> crisp_value]),
                     !.pc = IF i + 1 = Len(fis_.rules) THEN "returned" ELSE "loop"]

(***************************************************************************)
(* app.py: POST /api/applications (create_application).  A request is the  *)
(* JSON body; customer_id 0 stands for a body without 'customer_id'.       *)
(***************************************************************************)
\* str.lower() on the labels a request may carry
str_lower(label) ==
    CASE label = "Poor" -> "poor"
      [] label = "Average" -> "average"
      [] label = "GOOD" -> "good"
      [] OTHER -> label

\* lines 145-151: credit_history_map.get(data['credit_history'].lower(), 5)
credit_history_value(data) ==
    LET key == str_lower(data.credit_history)
    IN  CASE key = "poor" -> R(2)
          [] key = "average" -> R(5)
          [] key = "good" -> R(8)
          [] OTHER -> R(5)

\* int(): the fraction is cut off towards zero
int(v) == IF v.num >= 0 THEN v.num \div v.den ELSE -((-v.num) \div v.den)

\* lines 129-143: the customer row the application belongs to; a new row gets
\* the next id and is committed before the engine is called
create_application_customer(db, data) ==
    IF data.customer_id # 0 /\ data.customer_id \in db.customers
    THEN [db EXCEPT !.customer = data.customer_id]
    ELSE [db EXCEPT !.customer = Cardinality(db.customers) + 1,
                    !.customers = @ \cup {Cardinality(db.customers) + 1}]

\* lines 160-193: the scores cut to integers, the levels, the stored row and
\* the 201 response
create_application_store(db, result) ==
    LET risk_score == int(result.risk)
        eligibility_score == int(result.eligibility)
        risk_level == IF risk_score >= 70 THEN "High"
                      ELSE IF risk_score >= 40 THEN "Medium"
                      ELSE "Low"
        eligibility_status == IF eligibility_score < 40 THEN "Not Eligible"
                              ELSE IF eligibility_score < 70 THEN "Under Consideration"
                              ELSE "Eligible"
        new_application == [id |-> Len(db.applications) + 1,
                            customer_id |-> db.customer,
                            monthly_income |-> db.data.monthly_income,
                            dependents |-> db.data.dependents,
                            credit_history |-> db.data.credit_history,
                            risk_score |-> risk_score,
                            risk_level |-> risk_level,
                            eligibility_score |-> eligibility_score,
                            eligibility_status |-> eligibility_status]
    IN  [db EXCEPT !.pc = "responded",
                   !.applications = Append(@, new_application),
                   !.response = [status |-> 201, body |-> new_application]]

(***************************************************************************)
(* Bounds and the inputs the specifications draw from                      *)
(***************************************************************************)
MaxParam == 3
MaxRules == 3
MaxCalls == 2
NumProcs == 2
MaxPoints == 4

Procs == 1 .. NumProcs

Half(n) == Frac(n, 2)

\* applicants of evaluate_credit_risk: dependents is an integer >= 0, the rating in [0,10]
CreditIncomes == {R(0), R(2000000), R(2750000), R(5000000), R(6750000), R(8000000)}
CreditDependents == {R(0), R(1), R(2), R(5)}
CreditRatings == {R(2), Half(7), R(5), Half(13), R(8)}
CreditInputs ==
    {Inputs(i, d, c) : i \in CreditIncomes, d \in CreditDependents, c \in CreditRatings}

\* inputs of the engine itself (any reals): two rules of one antecedent pair
\* fire together in the first two, no rule fires in the third
FISInputs ==
    {Inputs(R(6750000), Half(3), Half(13)),
     Inputs(R(2750000), R(2), Half(7)),
     Inputs(R(8000000), R(0), R(8))}

\* inputs of the concurrent calls: different rules fire in each
SharedInputs ==
    {Inputs(R(6750000), Half(3), Half(13)),
     Inputs(R(2750000), R(2), Half(7))}

\* what a caller may hand to add_variable and add_rule
VariableUniverse == {risk_var, eligibility_var}
RuleUniverse ==
    {FuzzyRule("rule3_antecedent", "risk", "medium"),
     FuzzyRule("rule5_antecedent", "risk", "high"),
     FuzzyRule("rule1_antecedent", "eligibility", "eligible"),
     FuzzyRule("rule5_antecedent", "risk", "very_high"),
     FuzzyRule("rule3_antecedent", "exposure", "medium")}

\* engines whose rules are then given in another order: the credit engine, and
\* one with a single output variable that several rules with different
\* antecedents conclude on
OrderRules ==
    << FuzzyRule("rule1_antecedent", "risk", "low"),
       FuzzyRule("rule3_antecedent", "risk", "medium"),
       FuzzyRule("rule5_antecedent", "risk", "high"),
       FuzzyRule("rule3_antecedent", "risk", "low"),
       FuzzyRule("rule1_antecedent", "risk", "high") >>

RECURSIVE AddRules(_, _, _)
AddRules(self, rules, n) ==
    IF n = 0 THEN self ELSE TsukamotoFIS_add_rule(AddRules(self, rules, n - 1), rules[n])

OrderEngines ==
    {create_credit_risk_fis,
     AddRules(BuilderRun(TsukamotoFIS, create_credit_risk_fis_calls, 4), OrderRules,
              IF MaxRules < Len(OrderRules) THEN MaxRules ELSE Len(OrderRules))}

\* names and sample counts handed to generate_membership_function_data
VariableNames ==
    {"income", "dependents", "credit_history", "risk", "eligibility", "savings", "Income"}
PointCounts == -1 .. MaxPoints

\* request bodies of POST /api/applications: with and without customer_id,
\* a negative dependents count, a negative income, labels in other case and
\* an unrecognised one
AppRequests ==
    {[customer_id |-> c, monthly_income |-> R(2750000), dependents |-> d, credit_history |-> h] :
        c \in {0, 1}, d \in {R(-1), R(2)}, h \in {"Poor", "average", "excellent"}}
    \cup {[customer_id |-> 0, monthly_income |-> R(-1), dependents |-> R(0),
           credit_history |-> "GOOD"]}

KnowledgeBaseVariables ==
    {income_var, dependents_var, credit_history_var, risk_var, eligibility_var}
KnowledgeBaseMFs ==
    UNION {{v.membership_functions[t] : t \in DOMAIN v.membership_functions} :
           v \in KnowledgeBaseVariables}

\* every triangular a <= b <= c and trapezoidal a <= b <= c <= d over 0..MaxParam
GridMFs ==
    {TriangularMF("tri", a, b, c) :
        a \in 0 .. MaxParam, b \in 0 .. MaxParam, c \in 0 .. MaxParam}
    \cup {TrapezoidalMF("trap", q[1], q[2], q[3], q[4]) :
        q \in (0 .. MaxParam) \X (0 .. MaxParam) \X (0 .. MaxParam) \X (0 .. MaxParam)}

WellFormed(mf) == Le(mf.a, mf.b) /\ Le(mf.b, mf.c) /\ Le(mf.c, mf.d)

ProbeMFs == KnowledgeBaseMFs \cup {mf \in GridMFs : WellFormed(mf)}

Mid(p, q) == Div(Add(p, q), R(2))

\* degrees handed to inverse: 0, inside (0,1), 1 and beyond 1
ProbeDegrees == {R(0), Frac(1, 4), Frac(1, 2), Frac(3, 4), R(1), Frac(3, 2), R(2)}

\* arguments on, between and beyond the breakpoints of mf
ProbePoints(mf) ==
    {Sub(mf.a, R(1)), mf.a, Mid(mf.a, mf.b), mf.b, Mid(mf.b, mf.c), mf.c,
     Mid(mf.c, mf.d), mf.d, Add(mf.d, R(1))}

(***************************************************************************)
(* Actions                                                                 *)
(***************************************************************************)
NoValue == [risk |-> R(0), eligibility |-> R(0)]
IdleCredit == [pc |-> "idle", inputs |-> NoInputs, next |-> 0, value |-> NoValue, exc |-> ""]
NoHistory == [calls |-> 0, first |-> [inputs |-> NoInputs, value |-> NoValue]]
IdleProbe ==
    [pc |-> "idle", mf |-> TriangularMF("tri", 0, 0, 0), x |-> R(0), degree |-> R(0),
     rule |-> FuzzyRule("rule1_antecedent", "risk", "low"), inputs |-> NoInputs,
     firing_strength |-> R(0), y |-> R(0), crisp_value |-> R(0)]

IdleViz ==
    [pc |-> "idle", func |-> "", variable_name |-> "", num_points |-> 0, x |-> <<>>,
     inputs |-> NoInputs, data |-> <<>>, exc |-> ""]
NoData ==
    [customer_id |-> 0, monthly_income |-> R(0), dependents |-> R(0), credit_history |-> ""]
NoResponse == [status |-> 0, body |-> <<>>]
IdleApp ==
    [pc |-> "idle", data |-> NoData, customer |-> 0, customers |-> {}, applications |-> <<>>,
     response |-> NoResponse]

\* mf.evaluate(x) is called and returns
ProbeEvaluate ==
    /\ probe.pc = "ready"
    /\ probe' = [probe EXCEPT !.pc = "evaluated", !.degree = MF_evaluate(probe.mf, probe.x)]
    /\ UNCHANGED <<fis, assembled, frames, credit, history, viz, app>>

\* mf.inverse(y) is called and returns
ProbeInverse ==
    /\ probe.pc = "primed"
    /\ probe' = [probe EXCEPT !.pc = "inverted", !.crisp_value = MF_inverse(probe.mf, probe.y)]
    /\ UNCHANGED <<fis, assembled, frames, credit, history, viz, app>>

\* rule.evaluate(inputs) is called and returns
ProbeRuleEvaluate ==
    /\ probe.pc = "armed"
    /\ probe' = [probe EXCEPT !.pc = "fired",
                              !.firing_strength = FuzzyRule_evaluate(probe.rule, probe.inputs)]
    /\ UNCHANGED <<fis, assembled, frames, credit, history, viz, app>>

\* fis.add_variable(variable, is_output)
AddVariable(variable, is_output) ==
    /\ ~assembled
    /\ fis' = TsukamotoFIS_add_variable(fis, variable, is_output)
    /\ UNCHANGED <<probe, assembled, frames, credit, history, viz, app>>

\* fis.add_rule(rule)
AddRule(rule) ==
    /\ ~assembled
    /\ Len(fis.rules) < MaxRules
    /\ fis' = TsukamotoFIS_add_rule(fis, rule)
    /\ UNCHANGED <<probe, assembled, frames, credit, history, viz, app>>

\* the builder hands the engine over
Assemble ==
    /\ ~assembled
    /\ assembled' = TRUE
    /\ UNCHANGED <<probe, fis, frames, credit, history, viz, app>>

Step(p, after) ==
    /\ fis' = after.self
    /\ frames' = [frames EXCEPT ![p] = after.frame]

\* fis.evaluate(inputs) is called
EvalEnter(p, inputs) ==
    /\ assembled
    /\ credit.pc = "idle"
    /\ frames[p].pc \in {"idle", "done", "raised"}
    /\ Step(p, evaluate_enter(fis, inputs))
    /\ UNCHANGED <<probe, assembled, credit, history, viz, app>>

EvalRule(p) ==
    /\ frames[p].pc = "rules"
    /\ Step(p, evaluate_rule(fis, frames[p]))
    /\ UNCHANGED <<probe, assembled, credit, history, viz, app>>

EvalOutputs(p) ==
    /\ frames[p].pc = "outputs"
    /\ Step(p, evaluate_outputs(fis, frames[p]))
    /\ UNCHANGED <<probe, assembled, credit, history, viz, app>>

\* a set is iterated in an order the program does not choose
EvalOutputVar(p) ==
    /\ frames[p].pc = "next"
    /\ \E output_var \in frames[p].pending :
           Step(p, evaluate_output_var(fis, frames[p], output_var))
    /\ UNCHANGED <<probe, assembled, credit, history, viz, app>>

EvalInner(p) ==
    /\ frames[p].pc = "inner"
    /\ Step(p, evaluate_inner(fis, frames[p]))
    /\ UNCHANGED <<probe, assembled, credit, history, viz, app>>

EvalAssign(p) ==
    /\ frames[p].pc = "assign"
    /\ Step(p, evaluate_assign(fis, frames[p]))
    /\ UNCHANGED <<probe, assembled, credit, history, viz, app>>

EvalReturn(p) ==
    /\ frames[p].pc = "next"
    /\ frames[p].pending = {}
    /\ Step(p, evaluate_return(fis, frames[p]))
    /\ UNCHANGED <<probe, assembled, credit, history, viz, app>>

Eval(p) ==
    \/ EvalRule(p)
    \/ EvalOutputs(p)
    \/ EvalOutputVar(p)
    \/ EvalInner(p)
    \/ EvalAssign(p)
    \/ EvalReturn(p)

\* generate_membership_function_data(variable_name, num_points) is called
MembershipDataCall(variable_name, num_points) ==
    /\ viz.pc \in {"idle", "returned", "raised"}
    /\ viz' = generate_membership_function_data_enter(IdleViz, variable_name, num_points)
    /\ UNCHANGED <<probe, fis, assembled, frames, credit, history, app>>

MembershipDataPoint ==
    /\ viz.func = "generate_membership_function_data"
    /\ viz.pc = "loop"
    /\ viz' = generate_membership_function_data_point(viz)
    /\ UNCHANGED <<probe, fis, assembled, frames, credit, history, app>>

\* generate_rule_evaluation_data(inputs) is called
RuleDataCall(inputs) ==
    /\ viz.pc \in {"idle", "returned", "raised"}
    /\ viz' = generate_rule_evaluation_data_enter(IdleViz, inputs)
    /\ UNCHANGED <<probe, fis, assembled, frames, credit, history, app>>

RuleDataRule ==
    /\ viz.func = "generate_rule_evaluation_data"
    /\ viz.pc = "loop"
    /\ viz' = generate_rule_evaluation_data_rule(viz)
    /\ UNCHANGED <<probe, fis, assembled, frames, credit, history, app>>

\* evaluate is called on the engine: with any inputs the first time, with the
\* inputs of the first call once the rules have been given in another order
OrderCall ==
    /\ frames[1].pc = "idle"
    /\ \E inputs \in (IF history.calls = 0 THEN FISInputs ELSE {history.first.inputs}) :
           EvalEnter(1, inputs)

\* the result of the call is kept and the same rules are given to add_rule in
\* the order perm
Reorder(perm) ==
    /\ history.calls = 0
    /\ frames[1].pc = "done"
    /\ history' = [calls |-> 1,
                   first |-> [inputs |-> frames[1].inputs, value |-> frames[1].result]]
    /\ fis' = [fis EXCEPT !.rules = [k \in 1 .. Len(fis.rules) |-> fis.rules[perm[k]]]]
    /\ frames' = [frames EXCEPT ![1] = IdleFrame]
    /\ UNCHANGED <<probe, assembled, credit, viz, app>>

\* evaluate_credit_risk(income, dependents, credit_history_rating) is called:
\* line 224 starts create_credit_risk_fis on a fresh engine
CreditCall(inputs) ==
    /\ credit.pc \in {"idle", "returned", "raised"}
    /\ history.calls < MaxCalls
    /\ credit' = [IdleCredit EXCEPT !.pc = "create", !.inputs = inputs, !.next = 1]
    /\ fis' = TsukamotoFIS
    /\ assembled' = FALSE
    /\ frames' = [p \in Procs |-> IdleFrame]
    /\ UNCHANGED <<probe, history, viz, app>>

\* the next add_variable / add_rule call of create_credit_risk_fis
CreditCreate ==
    /\ credit.pc = "create"
    /\ fis' = BuilderCall(fis, create_credit_risk_fis_calls[credit.next])
    /\ credit' = [credit EXCEPT
           !.next = @ + 1,
           !.pc = IF credit.next = Len(create_credit_risk_fis_calls) THEN "evaluate" ELSE "create"]
    /\ assembled' = (credit.next = Len(create_credit_risk_fis_calls))
    /\ UNCHANGED <<probe, frames, history, viz, app>>

\* line 225: fis.evaluate({...}) is called
CreditEvaluate ==
    /\ credit.pc = "evaluate"
    /\ Step(1, evaluate_enter(fis, credit.inputs))
    /\ credit' = [credit EXCEPT !.pc = "evaluating"]
    /\ UNCHANGED <<probe, assembled, history, viz, app>>

\* lines 231-234: the returned mapping (or the exception, passed on)
evaluate_credit_risk_return(frame) ==
    IF frame.pc = "raised" THEN [pc |-> "raised", value |-> NoValue, exc |-> frame.exc]
    ELSE IF {"risk", "eligibility"} \subseteq DOMAIN frame.result
    THEN [pc |-> "returned",
          value |-> [risk |-> frame.result["risk"], eligibility |-> frame.result["eligibility"]],
          exc |-> ""]
    ELSE [pc |-> "raised", value |-> NoValue, exc |-> "KeyError"]

CreditReturn ==
    /\ credit.pc = "evaluating"
    /\ frames[1].pc \in {"done", "raised"}
    /\ LET r == evaluate_credit_risk_return(frames[1])
       IN  /\ credit' = [credit EXCEPT !.pc = r.pc, !.value = r.value, !.exc = r.exc]
           /\ history' = [calls |-> history.calls + 1,
                          first |-> IF history.calls = 0
                                    THEN [inputs |-> credit.inputs, value |-> r.value]
                                    ELSE history.first]
    /\ UNCHANGED <<probe, fis, assembled, frames, viz, app>>

\* POST /api/applications arrives: lines 127-159, up to the call of
\* evaluate_credit_risk, which starts create_credit_risk_fis on a fresh engine
CreateApplicationCall(data) ==
    /\ app.pc \in {"idle", "responded"}
    /\ history.calls < MaxCalls
    /\ app' = [create_application_customer(app, data) EXCEPT
                  !.pc = "evaluating", !.data = data, !.response = NoResponse]
    /\ credit' = [IdleCredit EXCEPT
                     !.pc = "create",
                     !.inputs = Inputs(data.monthly_income, data.dependents,
                                       credit_history_value(data)),
                     !.next = 1]
    /\ fis' = TsukamotoFIS
    /\ assembled' = FALSE
    /\ frames' = [p \in Procs |-> IdleFrame]
    /\ UNCHANGED <<probe, history, viz>>

\* evaluate_credit_risk has returned: lines 160-193; an exception it raised
\* leaves the handler and is answered with 500
CreateApplicationRespond ==
    /\ app.pc = "evaluating"
    /\ credit.pc \in {"returned", "raised"}
    /\ app' = IF credit.pc = "raised"
              THEN [app EXCEPT !.pc = "responded",
                               !.response = [status |-> 500, body |-> credit.exc]]
              ELSE create_application_store(app, credit.value)
    /\ UNCHANGED <<probe, fis, assembled, frames, credit, history, viz>>

(***************************************************************************)
(* Specifications                                                          *)
(***************************************************************************)
\* a membership function applied to an argument, a rule of the knowledge base
\* applied to inputs
InitMF ==
    /\ \/ \E mf \in ProbeMFs : \E x \in ProbePoints(mf) :
              probe = [IdleProbe EXCEPT !.pc = "ready", !.mf = mf, !.x = x]
       \/ \E mf \in ProbeMFs : \E y \in ProbeDegrees :
              probe = [IdleProbe EXCEPT !.pc = "primed", !.mf = mf, !.y = y]
       \/ \E k \in DOMAIN create_credit_risk_fis.rules : \E inputs \in CreditInputs \cup FISInputs :
              probe = [IdleProbe EXCEPT !.pc = "armed", !.rule = create_credit_risk_fis.rules[k],
                                        !.inputs = inputs]
    /\ fis = TsukamotoFIS
    /\ assembled = FALSE
    /\ frames = [p \in Procs |-> IdleFrame]
    /\ credit = IdleCredit
    /\ history = NoHistory
    /\ viz = IdleViz
    /\ app = IdleApp

NextMF == ProbeEvaluate \/ ProbeInverse \/ ProbeRuleEvaluate

SpecMF == InitMF /\ [][NextMF]_vars

\* an engine assembled by any add_variable / add_rule calls, then evaluated
InitFIS ==
    /\ probe = IdleProbe
    /\ fis = TsukamotoFIS
    /\ assembled = FALSE
    /\ frames = [p \in Procs |-> IdleFrame]
    /\ credit = IdleCredit
    /\ history = NoHistory
    /\ viz = IdleViz
    /\ app = IdleApp

NextFIS ==
    \/ \E variable \in VariableUniverse, is_output \in BOOLEAN : AddVariable(variable, is_output)
    \/ \E rule \in RuleUniverse : AddRule(rule)
    \/ Assemble
    \/ \E inputs \in FISInputs : EvalEnter(1, inputs)
    \/ Eval(1)

SpecFIS == InitFIS /\ [][NextFIS]_vars

\* evaluate calls running concurrently on the engine create_credit_risk_fis built
InitShared ==
    /\ probe = IdleProbe
    /\ fis = create_credit_risk_fis
    /\ assembled = TRUE
    /\ frames = [p \in Procs |-> IdleFrame]
    /\ credit = IdleCredit
    /\ history = NoHistory
    /\ viz = IdleViz
    /\ app = IdleApp

NextShared ==
    \E p \in Procs :
        \/ \E inputs \in SharedInputs : EvalEnter(p, inputs)
        \/ Eval(p)

SpecShared == InitShared /\ [][NextShared]_vars

\* an engine evaluated, its rules given in another order, evaluated again
InitOrder ==
    /\ probe = IdleProbe
    /\ fis \in OrderEngines
    /\ assembled = TRUE
    /\ frames = [p \in Procs |-> IdleFrame]
    /\ credit = IdleCredit
    /\ history = NoHistory
    /\ viz = IdleViz
    /\ app = IdleApp

NextOrder ==
    \/ OrderCall
    \/ Eval(1)
    \/ \E perm \in Permutations(1 .. Len(fis.rules)) : Reorder(perm)

SpecOrder == InitOrder /\ [][NextOrder]_vars

\* the visualization helpers called again and again
InitViz ==
    /\ probe = IdleProbe
    /\ fis = TsukamotoFIS
    /\ assembled = FALSE
    /\ frames = [p \in Procs |-> IdleFrame]
    /\ credit = IdleCredit
    /\ history = NoHistory
    /\ viz = IdleViz
    /\ app = IdleApp

NextViz ==
    \/ \E variable_name \in VariableNames, num_points \in PointCounts :
           MembershipDataCall(variable_name, num_points)
    \/ MembershipDataPoint
    \/ \E inputs \in CreditInputs \cup FISInputs : RuleDataCall(inputs)
    \/ RuleDataRule

SpecViz == InitViz /\ [][NextViz]_vars

\* applications posted one after another
InitApp ==
    /\ probe = IdleProbe
    /\ fis = TsukamotoFIS
    /\ assembled = FALSE
    /\ frames = [p \in Procs |-> IdleFrame]
    /\ credit = IdleCredit
    /\ history = NoHistory
    /\ viz = IdleViz
    /\ app = IdleApp

NextApp ==
    \/ \E data \in AppRequests : CreateApplicationCall(data)
    \/ CreditCreate
    \/ CreditEvaluate
    \/ Eval(1)
    \/ CreditReturn
    \/ CreateApplicationRespond

SpecApp == InitApp /\ [][NextApp]_vars

\* evaluate_credit_risk called again and again
Init == InitFIS

Next ==
    \/ \E inputs \in CreditInputs : CreditCall(inputs)
    \/ CreditCreate
    \/ CreditEvaluate
    \/ Eval(1)
    \/ CreditReturn

Spec == Init /\ [][Next]_vars

(***************************************************************************)
(* Properties                                                              *)
(***************************************************************************)
InUnit(v) == IsNumber(v) /\ Le(R(0), v) /\ Le(v, R(1))

\* C5: a trapezoidal function with a <= b <= c <= d evaluates to 1 at every
\* x with b <= x <= c.
C5_PlateauIsOne ==
    (/\ probe.pc = "evaluated"
     /\ probe.mf.kind = "TrapezoidalMF"
     /\ WellFormed(probe.mf)
     /\ Le(probe.mf.b, probe.x)
     /\ Le(probe.x, probe.mf.c))
        => probe.degree = R(1)

\* C6: evaluate is 0 outside the support: at every x <= a and every x >= c of a
\* triangular function, at every x <= a and every x >= d of a trapezoidal one.
C6_ZeroOutsideSupport ==
    probe.pc = "evaluated" =>
        /\ (probe.mf.kind = "TriangularMF"
              /\ (Le(probe.x, probe.mf.a) \/ Ge(probe.x, probe.mf.c)))
               => probe.degree = R(0)
        /\ (probe.mf.kind = "TrapezoidalMF"
              /\ (Le(probe.x, probe.mf.a) \/ Ge(probe.x, probe.mf.d)))
               => probe.degree = R(0)

\* evaluate was applied on the edge of a support where the shoulder is vertical
C6_Witness ==
    /\ probe.pc = "evaluated"
    /\ probe.mf = dependents_var.membership_functions["few"]
    /\ probe.x = R(0)
    /\ probe.degree = R(0)

\* C7: evaluate returns a degree in [0,1] and raises nothing, for every
\* triangular a <= b <= c and trapezoidal a <= b <= c <= d, the degenerate
\* ones included; every firing strength of the rule base is in [0,1].
C7_TotalAndBounded ==
    /\ probe.pc = "evaluated" => InUnit(probe.degree)
    /\ probe.pc = "fired" => InUnit(probe.firing_strength)

\* evaluate was applied next to a vertical edge of a degenerate function
C7_Witness ==
    /\ probe.pc = "evaluated"
    /\ probe.mf.kind = "TrapezoidalMF"
    /\ probe.mf.c = probe.mf.d
    /\ Lt(probe.mf.b, probe.mf.c)
    /\ Lt(probe.mf.b, probe.x)
    /\ Lt(probe.x, probe.mf.c)
    /\ probe.degree = R(1)

\* what the engine's definition gives, computed from the rule base as a whole
StrengthOf(self, inputs, k) == FuzzyRule_evaluate(self.rules[k], inputs)

FiredFor(self, inputs, v) ==
    {k \in 1 .. Len(self.rules) :
        self.rules[k].consequent_var = v /\ Gt(StrengthOf(self, inputs, k), R(0))}

CrispOf(self, inputs, k) ==
    MF_inverse(self.variables[self.rules[k].consequent_var]
                   .membership_functions[self.rules[k].consequent_term],
               StrengthOf(self, inputs, k))

RECURSIVE SumWeighted(_, _, _)
SumWeighted(self, inputs, S) ==
    IF S = {} THEN R(0)
    ELSE LET k == CHOOSE k \in S : TRUE
         IN  Add(Mul(CrispOf(self, inputs, k), StrengthOf(self, inputs, k)),
                 SumWeighted(self, inputs, S \ {k}))

RECURSIVE SumWeights(_, _, _)
SumWeights(self, inputs, S) ==
    IF S = {} THEN R(0)
    ELSE LET k == CHOOSE k \in S : TRUE
         IN  Add(StrengthOf(self, inputs, k), SumWeights(self, inputs, S \ {k}))

WeightedAverage(self, inputs, v) ==
    Div(SumWeighted(self, inputs, FiredFor(self, inputs, v)),
        SumWeights(self, inputs, FiredFor(self, inputs, v)))

Midpoint(self, v) == Div(Add(self.variables[v].range[1], self.variables[v].range[2]), R(2))

\* C3: an output variable v for which no rule fires gets the midpoint of its
\* range: the key is in the result, and no error is raised on its account.
C3_MidpointFallback ==
    /\ frames[1].pc = "done" =>
          \A v \in fis.output_variables :
              FiredFor(fis, frames[1].inputs, v) = {} =>
                  /\ v \in DOMAIN frames[1].result
                  /\ frames[1].result[v] = Midpoint(fis, v)
    /\ (frames[1].pc = "raised" /\ frames[1].output_var # "") =>
          FiredFor(fis, frames[1].inputs, frames[1].output_var) # {}

\* a call returned although one output variable had a firing rule and another none
C3_Witness ==
    /\ frames[1].pc = "done"
    /\ \E v \in fis.output_variables : FiredFor(fis, frames[1].inputs, v) = {}
    /\ \E v \in fis.output_variables : FiredFor(fis, frames[1].inputs, v) # {}

\* C4: an output variable v with a firing rule gets the sum of
\* inverse(firing_strength) * firing_strength over exactly the rules of
\* consequent variable v with firing strength > 0, divided by the sum of
\* their firing strengths.
C4_WeightedAverage ==
    frames[1].pc = "done" =>
        \A v \in fis.output_variables :
            FiredFor(fis, frames[1].inputs, v) # {} =>
                /\ v \in DOMAIN frames[1].result
                /\ frames[1].result[v] = WeightedAverage(fis, frames[1].inputs, v)

\* a call returned with two rules fired for the variable and a third fired
\* for another variable
C4_Witness ==
    /\ frames[1].pc = "done"
    /\ \E v \in fis.output_variables :
          /\ Cardinality(FiredFor(fis, frames[1].inputs, v)) = 2
          /\ \E k \in 1 .. Len(fis.rules) :
                /\ fis.rules[k].consequent_var # v
                /\ Gt(StrengthOf(fis, frames[1].inputs, k), R(0))

ConsequentKnown(self, rule) ==
    /\ rule.consequent_var \in DOMAIN self.variables
    /\ rule.consequent_term \in DOMAIN self.variables[rule.consequent_var].membership_functions

\* C10: a rule whose consequent names a variable or term absent from the
\* engine's variables is rejected when the rule base is built: no evaluate
\* call fails on it or runs to its end with such a rule in the engine.
C10_RejectedAtBuildTime ==
    frames[1].pc \in {"done", "raised"} =>
        /\ frames[1].pc # "raised"
        /\ \A k \in 1 .. Len(fis.rules) : ConsequentKnown(fis, fis.rules[k])

InScore(v) == IsNumber(v) /\ Le(R(0), v) /\ Le(v, R(100))

Applicant(income, dependents, credit_history) ==
    Inputs(R(income), R(dependents), R(credit_history))

\* C1: the three canonical applicants get Low/Eligible, Medium/Under
\* Consideration and High/Not Eligible: risk < 40 and eligibility >= 70,
\* both in [40,70), risk >= 70 and eligibility < 40.
C1_CanonicalApplicants ==
    /\ (credit.pc \in {"returned", "raised"} /\ credit.inputs = Applicant(8000000, 1, 8)) =>
          /\ credit.pc = "returned"
          /\ Lt(credit.value.risk, R(40))
          /\ Ge(credit.value.eligibility, R(70))
          /\ get_risk_level(credit.value.risk) = "Low"
          /\ get_eligibility_status(credit.value.eligibility) = "Eligible"
    /\ (credit.pc \in {"returned", "raised"} /\ credit.inputs = Applicant(5000000, 2, 5)) =>
          /\ credit.pc = "returned"
          /\ Ge(credit.value.risk, R(40)) /\ Lt(credit.value.risk, R(70))
          /\ Ge(credit.value.eligibility, R(40)) /\ Lt(credit.value.eligibility, R(70))
          /\ get_risk_level(credit.value.risk) = "Medium"
          /\ get_eligibility_status(credit.value.eligibility) = "Under Consideration"
    /\ (credit.pc \in {"returned", "raised"} /\ credit.inputs = Applicant(2000000, 5, 2)) =>
          /\ credit.pc = "returned"
          /\ Ge(credit.value.risk, R(70))
          /\ Lt(credit.value.eligibility, R(40))
          /\ get_risk_level(credit.value.risk) = "High"
          /\ get_eligibility_status(credit.value.eligibility) = "Not Eligible"

\* the third canonical applicant was scored
C1_Witness ==
    /\ credit.pc = "returned"
    /\ credit.inputs = Applicant(2000000, 5, 2)
    /\ credit.value = [risk |-> R(85), eligibility |-> R(15)]

\* C2: for every applicant evaluate_credit_risk returns a mapping with the
\* keys risk and eligibility, both values in [0,100].
C2_ScoresInRange ==
    /\ credit.pc # "raised"
    /\ credit.pc = "returned" =>
          /\ DOMAIN credit.value = {"risk", "eligibility"}
          /\ InScore(credit.value.risk)
          /\ InScore(credit.value.eligibility)

\* an applicant was scored from two rules firing with fractional strengths
C2_Witness ==
    /\ credit.pc = "returned"
    /\ Cardinality(FiredFor(fis, credit.inputs, "risk")) = 2
    /\ credit.value.risk.den > 1

\* C8: a call of evaluate_credit_risk returns the values the first call
\* returned for the same inputs, whatever calls came between and in whatever
\* order each call's loop visits the output variables.
C8_Deterministic ==
    (/\ credit.pc \in {"returned", "raised"}
     /\ history.calls >= 2
     /\ credit.inputs = history.first.inputs)
        => (credit.pc = "returned" /\ credit.value = history.first.value)

\* a later call returned for the inputs of the first call, two rules having fired
C8_Witness ==
    /\ credit.pc = "returned"
    /\ history.calls >= 2
    /\ credit.inputs = history.first.inputs
    /\ Cardinality(FiredFor(fis, credit.inputs, "risk")) = 2

\* the result of one call running alone on the engine
SequentialResult(self, inputs) ==
    [v \in self.output_variables |->
        IF FiredFor(self, inputs, v) = {} THEN Midpoint(self, v)
        ELSE WeightedAverage(self, inputs, v)]

\* C9: evaluate calls interleaved in any way on one engine assembled
\* beforehand each return what a call running alone returns, and the engine
\* stays as it was assembled (variables, their ranges and membership
\* functions, rules, output_variables) whatever steps the calls have taken.
C9_ConcurrentEvaluate ==
    /\ fis = create_credit_risk_fis
    /\ \A p \in Procs :
          /\ frames[p].pc # "raised"
          /\ frames[p].pc = "done" =>
                frames[p].result = SequentialResult(create_credit_risk_fis, frames[p].inputs)

\* one call has returned while another, with other inputs, is inside its loops
C9_Witness ==
    /\ frames[1].pc = "done"
    /\ frames[2].pc = "inner"
    /\ frames[2].inputs # frames[1].inputs
    /\ fis = create_credit_risk_fis

\* the two edge estimates of the specified inverse, averaged
EdgeAverage(a, b, c, d, y) ==
    Div(Add(Add(a, Mul(y, Sub(b, a))), Sub(d, Mul(y, Sub(d, c)))), R(2))

\* C15: triangular inverse(y) is b when y = 0 or y > 1 and
\* ((a + y(b-a)) + (c - y(c-b))) / 2 when 0 < y <= 1; trapezoidal inverse(y)
\* is (b+c)/2 when y = 0, y = 1 or y > 1 and
\* ((a + y(b-a)) + (d - y(d-c))) / 2 when 0 < y < 1.
C15_InverseFormulas ==
    probe.pc = "inverted" =>
        LET mf == probe.mf
            y == probe.y
        IN  /\ (mf.kind = "TriangularMF" /\ (Eq(y, R(0)) \/ Gt(y, R(1))))
                  => probe.crisp_value = mf.b
            /\ (mf.kind = "TriangularMF" /\ Gt(y, R(0)) /\ Le(y, R(1)))
                  => probe.crisp_value = EdgeAverage(mf.a, mf.b, mf.b, mf.c, y)
            /\ (mf.kind = "TrapezoidalMF" /\ (Eq(y, R(0)) \/ Ge(y, R(1))))
                  => probe.crisp_value = Div(Add(mf.b, mf.c), R(2))
            /\ (mf.kind = "TrapezoidalMF" /\ Gt(y, R(0)) /\ Lt(y, R(1)))
                  => probe.crisp_value = EdgeAverage(mf.a, mf.b, mf.c, mf.d, y)

\* inverse was applied to a skewed triangle at a degree inside (0,1)
C15_Witness ==
    /\ probe.pc = "inverted"
    /\ probe.mf = income_var.membership_functions["medium"]
    /\ probe.y = Frac(1, 4)
    /\ probe.crisp_value = R(4812500)

WellFormedEngine(self) ==
    /\ self.output_variables \subseteq DOMAIN self.variables
    /\ \A k \in 1 .. Len(self.rules) :
          /\ self.rules[k].consequent_var \in DOMAIN self.variables
          /\ self.rules[k].consequent_var \in self.output_variables
          /\ self.rules[k].consequent_term
                \in DOMAIN self.variables[self.rules[k].consequent_var].membership_functions

\* C16: after every prefix of the add_variable / add_rule calls of
\* create_credit_risk_fis, and in the engine it returns, output_variables is a
\* subset of the keys of variables and every rule added so far names a
\* consequent variable that is in variables and in output_variables and a
\* consequent term that is a membership function of that variable.
C16_WellFormedAssembly == WellFormedEngine(fis)

\* the assembly is between two add_rule calls
C16_Witness ==
    /\ credit.pc = "create"
    /\ Len(fis.rules) = 3
    /\ fis.output_variables = {"risk", "eligibility"}

\* C17: the two scores evaluate_credit_risk returns add up to 100, also when
\* no rule fires and both are the midpoint 50.
C17_Complementary ==
    credit.pc = "returned" =>
        Add(credit.value.risk, credit.value.eligibility) = R(100)

\* an applicant for whom no rule fired was scored 50 and 50
C17_Witness ==
    /\ credit.pc = "returned"
    /\ FiredFor(fis, credit.inputs, "risk") = {}
    /\ FiredFor(fis, credit.inputs, "eligibility") = {}
    /\ credit.value = [risk |-> R(50), eligibility |-> R(50)]

C13_RuleEvaluationData ==
    (viz.func = "generate_rule_evaluation_data" /\ viz.pc \in {"returned", "raised"}) =>
        /\ viz.pc = "returned"
        /\ Len(viz.data) = Len(create_credit_risk_fis.rules)
        /\ \A i \in 1 .. Len(viz.data) :
              LET entry == viz.data[i]
                  rule == create_credit_risk_fis.rules[i]
              IN  /\ entry.rule = i
                  /\ entry.output_var = rule.consequent_var
                  /\ entry.output_term = rule.consequent_term
                  /\ entry.antecedent = StrengthOf(create_credit_risk_fis, viz.inputs, i)
                  /\ entry.antecedent = R(0) => entry.crisp_value = R(0)
                  /\ entry.antecedent # R(0) =>
                        entry.crisp_value = CrispOf(create_credit_risk_fis, viz.inputs, i)

\* rules 1 and 2 did not fire, rules 5 and 6 fired at 1/2
C13_Witness ==
    /\ viz.func = "generate_rule_evaluation_data"
    /\ viz.pc = "returned"
    /\ viz.data[1].antecedent = R(0)
    /\ viz.data[1].crisp_value = R(0)
    /\ viz.data[5].antecedent = Frac(1, 2)
    /\ viz.data[5].crisp_value = Frac(35, 2)
    /\ viz.data[6].crisp_value = Frac(165, 2)

UnknownVariable == "ValueError: Variable not found in FIS"

CurveDone ==
    viz.func = "generate_membership_function_data" /\ viz.pc \in {"returned", "raised"}

\* every point carries x and one degree per term of the variable
OneDegreePerTerm(variable) ==
    \A i \in 1 .. Len(viz.data) :
        /\ DOMAIN viz.data[i] = {"x"} \cup DOMAIN variable.membership_functions
        /\ \A t \in DOMAIN variable.membership_functions : InUnit(viz.data[i][t])

\* C12 as stated: generate_membership_function_data(variable_name, n) fails
\* with the unknown-variable error exactly when variable_name is not a
\* variable of the knowledge base, and for each of the five names returns n
\* points, the first at the range minimum and the last at the range maximum,
\* each with one degree per term.
C12_CurveAsStated ==
    CurveDone =>
        /\ (viz.pc = "raised" /\ viz.exc = UnknownVariable)
              <=> (viz.variable_name \notin DOMAIN create_credit_risk_fis.variables)
        /\ (viz.variable_name \in DOMAIN create_credit_risk_fis.variables) =>
              LET variable == create_credit_risk_fis.variables[viz.variable_name]
              IN  /\ viz.pc = "returned"
                  /\ Len(viz.data) = viz.num_points
                  /\ Len(viz.data) >= 1 =>
                        /\ viz.data[1]["x"] = variable.range[1]
                        /\ viz.data[Len(viz.data)]["x"] = variable.range[2]
                  /\ OneDegreePerTerm(variable)

\* C12: generate_membership_function_data(variable_name, n) fails with the
\* unknown-variable error exactly when variable_name is not one of income,
\* dependents, credit_history, risk, eligibility; for each of those five
\* names and n >= 0 it returns exactly n points, each with one degree per
\* term, the first x (n >= 1) being the range minimum and the last x (n >= 2)
\* the range maximum; with n < 0 it fails with the ValueError of np.linspace.
C12_MembershipCurve ==
    CurveDone =>
        /\ (viz.pc = "raised" /\ viz.exc = UnknownVariable)
              <=> (viz.variable_name \notin DOMAIN create_credit_risk_fis.variables)
        /\ (viz.variable_name \in DOMAIN create_credit_risk_fis.variables) =>
              LET variable == create_credit_risk_fis.variables[viz.variable_name]
              IN  IF viz.num_points < 0
                  THEN viz.pc = "raised" /\ viz.exc # UnknownVariable
                  ELSE /\ viz.pc = "returned"
                       /\ Len(viz.data) = viz.num_points
                       /\ viz.num_points >= 1 => viz.data[1]["x"] = variable.range[1]
                       /\ viz.num_points >= 2 =>
                             viz.data[viz.num_points]["x"] = variable.range[2]
                       /\ OneDegreePerTerm(variable)

\* three points of risk: 0, 50 and 100, the middle one fully medium
C12_Witness ==
    /\ CurveDone
    /\ viz.pc = "returned"
    /\ viz.variable_name = "risk"
    /\ viz.num_points = 3
    /\ viz.data[1]["x"] = R(0)
    /\ viz.data[2]["x"] = R(50)
    /\ viz.data[2]["medium"] = R(1)
    /\ viz.data[3]["x"] = R(100)

OutOfDomain(data) == Lt(data.dependents, R(0)) \/ Lt(data.monthly_income, R(0))

\* C11: a request to create_application with out-of-domain input (a negative
\* dependents count, a negative income) is answered with an InvalidInput
\* failure, the engine is never entered for it and no loan application with
\* such input is stored.
C11_RejectedAtBoundary ==
    /\ app.pc = "evaluating" => ~OutOfDomain(app.data)
    /\ (app.pc = "responded" /\ OutOfDomain(app.data)) =>
          (app.response.status = 400 /\ app.response.body = "InvalidInput")
    /\ \A k \in 1 .. Len(app.applications) : ~OutOfDomain(app.applications[k])

====
